---- MODULE Spec2Model ----
(***************************************************************************)
(* A model of the parser combinators of combinators.ts.                    *)
(*                                                                         *)
(* A grammar is built by a short construction program (calls of Parser.m,  *)
(* Parser.delay and of the combinator methods), one call a step; the nodes *)
(* it creates live in a heap.  A parse is run as a stack machine: one frame per active     *)
(* call of a parse method, one action per parser class, each action        *)
(* running the method from where it stands to its next call of a child or  *)
(* to its return.  An exception empties the stack: the source has no       *)
(* try/catch.                                                              *)
(***************************************************************************)
EXTENDS Integers, Sequences, FiniteSets, TLC

VARIABLES program, nodes, vars, ctx, stack, ret, status, log

state == <<program, nodes, vars, ctx, stack, ret, status, log>>

(***************************************************************************)
(* Bounds of the model.                                                    *)
(***************************************************************************)
\* Longest input sequence.
MaxLen == 3
\* Longest trace of a parse that is followed: a parse that does not end
\* (a repetition whose child succeeds without consuming) is left there.
MaxLog == 90
\* Longest input with a null entry.
MaxNullLen == 2
\* Longest chain of method calls of a generated grammar.
MaxChain == 2
\* The longest string of brackets the bracket grammar is run on.
MaxBracketLen == 4

(***************************************************************************)
(* JavaScript values: results of parsers and elements of the input.  Every *)
(* value is a record of the same shape, so that any two can be compared.   *)
(***************************************************************************)
Value(t, e, l) == [t |-> t, e |-> e, l |-> l]
Null == Value("null", "", <<>>)
Undefined == Value("undefined", "", <<>>)
True == Value("boolean", "true", <<>>)
Str(s) == Value("string", s, <<>>)
List(s) == Value("object", "", s)

\* Parser.is_null / Parser.is_not_null.
is_null(obj) == obj = Null \/ obj = Undefined
is_not_null(obj) == ~(obj = Null \/ obj = Undefined)

\* ToBoolean, as applied by `if (result)`.
Truthy(v) ==
  CASE v.t = "null" -> FALSE
    [] v.t = "undefined" -> FALSE
    [] v.t = "boolean" -> v.e = "true"
    [] v.t = "string" -> v.e # ""
    [] OTHER -> TRUE

\* The key under which an object is stored when it is used as a property
\* name: ToString of an object that defines no toString of its own.
PropertyKey(node) == "[object Object]"

(***************************************************************************)
(* IndexableContext.                                                       *)
(***************************************************************************)
\* cut_point before any cut is placed: the field is declared and not
\* initialised; every comparison with it is false.
NoCut == -1

\* input[index], with indices from 0; undefined outside the input.
ElementAt(input, index) ==
  IF index >= 0 /\ index < Len(input) THEN input[index + 1] ELSE Undefined

IndexableContext(input) ==
  [input |-> input,
   current_index |-> 0,
   current_element |-> ElementAt(input, 0),
   cache |-> <<>>,
   cut_point |-> NoCut,
   cut_reason |-> ""]

cut(c, reason) ==
  [c EXCEPT !.cut_point = c.current_index, !.cut_reason = reason]

\* advance moving the index and keeping the element it pointed at.
advance_stale(c) == [c EXCEPT !.current_index = c.current_index + 1]

advance(c) ==
  [c EXCEPT !.current_index = c.current_index + 1,
            !.current_element = ElementAt(c.input, c.current_index + 1)]

\* reset without the guard.
reset_throws_never(c, index) == FALSE

\* reset with its comparison off by one.
reset_throws_off_by_one(c, index) ==
  c.cut_point # NoCut /\ index + 1 < c.cut_point

\* The guard of reset: index < this.cut_point.
reset_throws(c, index) == c.cut_point # NoCut /\ index < c.cut_point

\* reset when it does not throw.
reset(c, index) ==
  [c EXCEPT !.current_index = index,
            !.current_element = ElementAt(c.input, index)]

(***************************************************************************)
(* The heap of parser nodes and the construction of a grammar.             *)
(***************************************************************************)
\* A node: its class, its children (heap addresses, 0 for null/undefined)
\* and its callback, matcher, transformation, producer or reason.
Node(kind, kids, arg) == [kind |-> kind, kids |-> kids, arg |-> arg]

\* One statement of a construction program: a method, the variable holding
\* the receiver, the variable holding the argument parser (0: none or
\* null) and the function or string argument.
Stmt(method, recv, other, arg) ==
  [method |-> method, recv |-> recv, other |-> other, arg |-> arg]

\* The class each one-child combinator method instantiates.
UnaryKind(method) ==
  CASE method = "transformer" -> "Transform"
    [] method = "many" -> "Many"
    [] method = "optional" -> "Optional"
    [] method = "affirm" -> "PositiveLookahead"
    [] method = "deny" -> "NegativeLookahead"
    [] method = "on_enter" -> "OnEnter"
    [] method = "on_success" -> "OnSuccess"
    [] method = "on_failure" -> "OnFailure"
    [] method = "on_exit" -> "OnExit"
    [] method = "cache" -> "Caching"
    [] method = "guard" -> "Guard"
    [] method = "cut" -> "Cut"

\* The value of a variable of the program; 0 is null.
VarValue(b, v) == IF v = 0 THEN 0 ELSE b.vars[v]

\* A build state: the heap, the variables assigned so far and whether a
\* constructor has thrown.
Alloc(b, node) ==
  [b EXCEPT !.nodes = Append(b.nodes, node),
            !.vars = Append(b.vars, Len(b.nodes) + 1)]

Fail(b) == [b EXCEPT !.failed = TRUE]

\* AlternationParser.or returning a new node with the longer list.
or_copying(b, this, other) ==
  IF b.nodes[this].kind = "Alternation"
  THEN Alloc(b, Node("Alternation", Append(b.nodes[this].kids, other), ""))
  ELSE IF other = 0 THEN Fail(b)
       ELSE Alloc(b, Node("Alternation", <<this, other>>, ""))

\* Parser.or / AlternationParser.or.
or(b, this, other) ==
  IF b.nodes[this].kind = "Alternation"
  THEN [b EXCEPT !.nodes[this].kids = Append(b.nodes[this].kids, other),
                 !.vars = Append(b.vars, this)]
  ELSE IF other = 0 THEN Fail(b)
       ELSE Alloc(b, Node("Alternation", <<this, other>>, ""))

\* Parser.then / SequenceParser.then.
then(b, this, other) ==
  IF b.nodes[this].kind = "Sequence"
  THEN [b EXCEPT !.nodes[this].kids = Append(b.nodes[this].kids, other),
                 !.vars = Append(b.vars, this)]
  ELSE IF other = 0 THEN Fail(b)
       ELSE Alloc(b, Node("Sequence", <<this, other>>, ""))

\* Parser.zero_or_more: the KleeneStarParser constructor builds
\* parser.many().optional().
zero_or_more(b, this) ==
  LET many == Len(b.nodes) + 1
      optional == Len(b.nodes) + 2
      h == b.nodes \o <<Node("Many", <<this>>, ""),
                        Node("Optional", <<many>>, "")>>
  IN  [b EXCEPT !.nodes = Append(h, Node("KleeneStar", <<optional>>, "")),
                !.vars = Append(b.vars, Len(h) + 1)]

\* The constructors that check their callback: a method given "" as its
\* function argument was given null.
ChecksArg(method) ==
  method \in {"m", "delay", "transformer", "guard",
              "on_enter", "on_success", "on_failure", "on_exit"}

Construct(b, s) ==
  LET this == VarValue(b, s.recv)
      other == VarValue(b, s.other)
  IN  IF b.failed THEN b
      ELSE IF ChecksArg(s.method) /\ s.arg = "" THEN Fail(b)
      ELSE CASE s.method = "m" -> Alloc(b, Node("Basic", <<>>, s.arg))
             [] s.method = "delay" -> Alloc(b, Node("Delayed", <<s.other>>, s.arg))
             [] s.method = "or" -> or(b, this, other)
             [] s.method = "then" -> then(b, this, other)
             [] s.method = "zero_or_more" -> zero_or_more(b, this)
             [] OTHER -> Alloc(b, Node(UnaryKind(s.method), <<this>>, s.arg))

RECURSIVE Run(_, _)
Run(b, statements) ==
  IF statements = <<>> THEN b
  ELSE Run(Construct(b, Head(statements)), Tail(statements))

\* The grammar a program builds; its last variable is the rule parsed with.
Build(statements) ==
  Run([nodes |-> <<>>, vars |-> <<>>, failed |-> FALSE], statements)

(***************************************************************************)
(* Client functions: the matchers, transformations, guards and producers   *)
(* the grammars of the model are built with.                               *)
(***************************************************************************)
\* Matcher: x => 'a' === x and the like.
Matcher(name, x) ==
  CASE name = "is_a" -> x = Str("a")
    [] name = "is_b" -> x = Str("b")
    [] OTHER -> TRUE

\* Transformation: x => "", x => [], x => x[1], and two that return an
\* absent value.
Transformation(name, x) ==
  CASE name = "empty_string" -> Str("")
    [] name = "empty_list" -> List(<<>>)
    [] name = "second" -> IF Len(x.l) >= 2 THEN x.l[2] ELSE Undefined
    [] name = "null" -> Null
    [] name = "undefined" -> Undefined
    [] OTHER -> x

\* GuardCodeBlock: a predicate over the context that writes nothing.
GuardCodeBlock(name, c) ==
  CASE name = "never" -> FALSE
    [] name = "has_element" -> is_not_null(c.current_element)
    [] OTHER -> TRUE

(***************************************************************************)
(* The machine: a state of a parse, and the steps the parse methods share. *)
(***************************************************************************)
\* A frame: one active call of a parse method, with its locals.  start is
\* the position at which the call was made.
Frame(node, start) ==
  [node |-> node, pc |-> "start", start |-> start,
   current_index |-> 0, parser_index |-> 0, acc |-> <<>>]

\* An entry of the trace of a parse: what happened, the node it happened
\* in, the node that called that one, the depth of its frame, the position
\* of the cursor just before, and the argument, value and outcome.
Event(ev, node, by, depth, pos, arg, val, flag) ==
  [ev |-> ev, node |-> node, by |-> by, depth |-> depth, pos |-> pos,
   arg |-> arg, val |-> val, flag |-> flag]

Cur ==
  [nodes |-> nodes, vars |-> vars, ctx |-> ctx, stack |-> stack, ret |-> ret,
   status |-> status, log |-> log]

Top(m) == m.stack[Len(m.stack)]
Self(m) == m.nodes[Top(m).node]
Caller(m) == IF Len(m.stack) > 1 THEN m.stack[Len(m.stack) - 1].node ELSE 0
Logged(m, e) == [m EXCEPT !.log = Append(m.log, e)]
SetTop(m, pc, current_index, parser_index, acc) ==
  [m EXCEPT !.stack[Len(m.stack)] =
     [@ EXCEPT !.pc = pc, !.current_index = current_index,
               !.parser_index = parser_index, !.acc = acc]]

\* An exception caught by the nearest enclosing AlternationParser.parse,
\* which takes it for the failure of the alternative.
Throw_caught(m) ==
  LET enclosing == {i \in DOMAIN m.stack :
                      m.nodes[m.stack[i].node].kind = "Alternation"}
      top == CHOOSE i \in enclosing : \A k \in enclosing : k <= i
  IN  IF enclosing = {}
      THEN [m EXCEPT !.stack = <<>>, !.status = "error"]
      ELSE [m EXCEPT !.stack = SubSeq(m.stack, 1, top), !.ret = Null]

\* An exception leaves every active parse method: nothing catches it.
Throw(m) == [m EXCEPT !.stack = <<>>, !.status = "error"]

\* An event of the method whose frame is on top.
Here(m, ev, arg, val, flag) ==
  Event(ev, Top(m).node, Caller(m), Len(m.stack), m.ctx.current_index, arg,
        val, flag)

\* child.parse(input): a call on null or undefined is a TypeError.
Call(m, child) ==
  IF child = 0
  THEN Throw(Logged(m, Here(m, "type_error", 0, Undefined, TRUE)))
  ELSE [m EXCEPT
         !.stack = Append(m.stack, Frame(child, m.ctx.current_index)),
         !.log = Append(m.log, Event("call", child, Top(m).node,
                                     Len(m.stack) + 1, m.ctx.current_index,
                                     0, Undefined, FALSE))]

\* return v: the frame is left and the caller resumes with v.  The event
\* carries the position the call was made at.
Return(m, v) ==
  [m EXCEPT
    !.stack = SubSeq(m.stack, 1, Len(m.stack) - 1),
    !.ret = v,
    !.status = IF Len(m.stack) = 1 THEN "done" ELSE m.status,
    !.log = Append(m.log, Here(m, "return", Top(m).start, v, FALSE))]

\* input.advance()
Advance(m) ==
  [m EXCEPT !.ctx = advance(m.ctx),
            !.log = Append(m.log, Here(m, "advance", 0, Undefined, FALSE))]

\* input.reset(index): the exception, or the move.
Reset(m, index) ==
  IF reset_throws(m.ctx, index)
  THEN Throw(Logged(m, Here(m, "reset", index, Undefined, TRUE)))
  ELSE [m EXCEPT !.ctx = reset(m.ctx, index),
                 !.log = Append(m.log, Here(m, "reset", index, Undefined, FALSE))]

\* input.cut(reason)
PlaceCut(m, reason) ==
  [m EXCEPT !.ctx = cut(m.ctx, reason),
            !.log = Append(m.log, Here(m, "cut", 0, Undefined, FALSE))]

\* this.block(input, result): an event code block writes nothing to the
\* context; its call is recorded.
Block(m, result) == Logged(m, Here(m, "block", 0, result, FALSE))

(***************************************************************************)
(* The parse methods.  Each takes the machine with the method's frame on   *)
(* top, at pc "start" when it is called and at the pc it left when a child *)
(* has returned (the child's result is m.ret), and runs to the next call   *)
(* or to the return.                                                       *)
(***************************************************************************)
\* BasicParser.parse without the test that the element exists.
BasicParser_parse_unguarded(m) ==
  LET current_element == m.ctx.current_element
  IN  IF Matcher(Self(m).arg, current_element)
      THEN Return(Advance(m), current_element)
      ELSE Return(m, Null)

\* BasicParser.parse advancing whether or not the matcher accepts.
BasicParser_parse_advancing(m) ==
  LET current_element == m.ctx.current_element
  IN  IF is_not_null(current_element) /\ Matcher(Self(m).arg, current_element)
      THEN Return(Advance(m), current_element)
      ELSE Return(Advance(m), Null)

BasicParser_parse(m) ==
  LET current_element == m.ctx.current_element
  IN  IF is_not_null(current_element) /\ Matcher(Self(m).arg, current_element)
      THEN Return(Advance(m), current_element)
      ELSE Return(m, Null)

\* OnExitParser.parse running its block only when the result is present.
OnExitParser_parse_on_success(m) ==
  IF Top(m).pc = "start"
  THEN Call(SetTop(m, "result", 0, 0, <<>>), Self(m).kids[1])
  ELSE IF is_not_null(m.ret)
       THEN Return(Block(m, m.ret), m.ret)
       ELSE Return(m, m.ret)

OnExitParser_parse(m) ==
  IF Top(m).pc = "start"
  THEN Call(SetTop(m, "result", 0, 0, <<>>), Self(m).kids[1])
  ELSE Return(Block(m, m.ret), m.ret)

CutParser_parse(m) ==
  IF Top(m).pc = "start"
  THEN Call(SetTop(m, "result", 0, 0, <<>>), Self(m).kids[1])
  ELSE IF m.ret # Null
       THEN Return(PlaceCut(m, Self(m).arg), m.ret)
       ELSE Return(m, m.ret)

\* this.alternatives[i] or this.sequence[i], as a condition: an index inside
\* the array whose entry is a parser.
HasParser(list, i) == i < Len(list) /\ list[i + 1] # 0

\* input.cache[this], created when absent.
CacheOf(m) ==
  LET key == PropertyKey(Top(m).node)
  IN  IF key \in DOMAIN m.ctx.cache
      THEN m.ctx.cache
      ELSE (key :> <<>>) @@ m.ctx.cache

CachingParser_parse(m) ==
  LET key == PropertyKey(Top(m).node)
      m1 == [m EXCEPT !.ctx.cache = CacheOf(m)]
      cache == m1.ctx.cache[key]
      index == m.ctx.current_index
  IN  IF Top(m).pc = "start"
      THEN IF index \notin DOMAIN cache
           THEN Call(SetTop(m1, "result", index, 0, <<>>), Self(m).kids[1])
           ELSE LET result_pair == cache[index]
                    m2 == Reset(Logged(m1, Here(m, "hit", result_pair[2],
                                                result_pair[1], FALSE)),
                                result_pair[2])
                IN  IF m2.status = "error" THEN m2
                    ELSE Return(m2, result_pair[1])
      ELSE LET starting_index == Top(m).current_index
               ending_index == m.ctx.current_index
               stored == [m EXCEPT !.ctx.cache[key] =
                            (starting_index :> <<m.ret, ending_index>>) @@ @]
           IN  Return(Logged(stored, Here(m, "store", starting_index, m.ret,
                                        FALSE)),
                      m.ret)

GuardParser_parse(m) ==
  IF Top(m).pc = "start"
  THEN IF GuardCodeBlock(Self(m).arg, m.ctx)
       THEN Call(SetTop(m, "result", 0, 0, <<>>), Self(m).kids[1])
       ELSE Return(m, Null)
  ELSE Return(m, m.ret)

OnFailureParser_parse(m) ==
  IF Top(m).pc = "start"
  THEN Call(SetTop(m, "result", 0, 0, <<>>), Self(m).kids[1])
  ELSE IF is_null(m.ret)
       THEN Return(Block(m, m.ret), m.ret)
       ELSE Return(m, m.ret)

OnSuccessParser_parse(m) ==
  IF Top(m).pc = "start"
  THEN Call(SetTop(m, "result", 0, 0, <<>>), Self(m).kids[1])
  ELSE IF is_not_null(m.ret)
       THEN Return(Block(m, m.ret), m.ret)
       ELSE Return(m, m.ret)

OnEnterParser_parse(m) ==
  IF Top(m).pc = "start"
  THEN Call(SetTop(Block(m, Null), "result", 0, 0, <<>>), Self(m).kids[1])
  ELSE Return(m, m.ret)

PositiveLookaheadParser_parse(m) ==
  IF Top(m).pc = "start"
  THEN Call(SetTop(m, "result", m.ctx.current_index, 0, <<>>), Self(m).kids[1])
  ELSE IF Truthy(m.ret)
       THEN LET m1 == Reset(m, Top(m).current_index)
            IN  IF m1.status = "error" THEN m1 ELSE Return(m1, m.ret)
       ELSE Return(m, Null)

NegativeLookaheadParser_parse(m) ==
  IF Top(m).pc = "start"
  THEN Call(SetTop(m, "result", m.ctx.current_index, 0, <<>>), Self(m).kids[1])
  ELSE IF Truthy(m.ret)
       THEN Return(m, Null)
       ELSE LET m1 == Reset(m, Top(m).current_index)
            IN  IF m1.status = "error" THEN m1 ELSE Return(m1, True)

\* The loop of AlternationParser.parse without the reset before an attempt.
AlternationLoop_no_reset(m, result) ==
  LET alternatives == Self(m).kids
      parser_index == Top(m).parser_index
  IN  IF HasParser(alternatives, parser_index) /\ is_null(result)
      THEN Call(m, alternatives[parser_index + 1])
      ELSE Return(m, result)

\* The while loop of AlternationParser.parse, entered with the frame's
\* parser_index and the result so far.
AlternationLoop(m, result) ==
  LET alternatives == Self(m).kids
      parser_index == Top(m).parser_index
  IN  IF HasParser(alternatives, parser_index) /\ is_null(result)
      THEN LET m1 == Reset(m, Top(m).current_index)
           IN  IF m1.status = "error" THEN m1
               ELSE Call(m1, alternatives[parser_index + 1])
      ELSE Return(m, result)

AlternationParser_parse(m) ==
  IF Top(m).pc = "start"
  THEN AlternationLoop(SetTop(m, "result", m.ctx.current_index, 0, <<>>), Null)
  ELSE AlternationLoop(SetTop(m, "result", Top(m).current_index,
                              Top(m).parser_index + 1, <<>>),
                       m.ret)

\* The while loop of SequenceParser.parse.
SequenceLoop(m) ==
  LET sequence == Self(m).kids
      parser_index == Top(m).parser_index
  IN  IF HasParser(sequence, parser_index)
      THEN Call(m, sequence[parser_index + 1])
      ELSE Return(m, List(Top(m).acc))

\* SequenceParser.parse rewinding to where it started when a child fails.
SequenceParser_parse_rewinding(m) ==
  IF Top(m).pc = "start"
  THEN SequenceLoop(SetTop(m, "parse_result", 0, 0, <<>>))
  ELSE IF is_not_null(m.ret)
       THEN SequenceLoop(SetTop(m, "parse_result", 0, Top(m).parser_index + 1,
                                Append(Top(m).acc, m.ret)))
       ELSE LET m1 == Reset(m, Top(m).start)
            IN  IF m1.status = "error" THEN m1 ELSE Return(m1, Null)

\* SequenceParser.parse putting each result in front of the accumulator.
SequenceParser_parse_unshift(m) ==
  IF Top(m).pc = "start"
  THEN SequenceLoop(SetTop(m, "parse_result", 0, 0, <<>>))
  ELSE IF is_not_null(m.ret)
       THEN SequenceLoop(SetTop(m, "parse_result", 0, Top(m).parser_index + 1,
                                <<m.ret>> \o Top(m).acc))
       ELSE Return(m, Null)

SequenceParser_parse(m) ==
  IF Top(m).pc = "start"
  THEN SequenceLoop(SetTop(m, "parse_result", 0, 0, <<>>))
  ELSE IF is_not_null(m.ret)
       THEN SequenceLoop(SetTop(m, "parse_result", 0, Top(m).parser_index + 1,
                                Append(Top(m).acc, m.ret)))
       ELSE Return(m, Null)

\* this.transform(result): a transformation writes nothing to the
\* context; its call is recorded with its argument.
Transform(m, result) == Logged(m, Here(m, "transform", 0, result, FALSE))

\* TransformParser.parse returning the child's result as it is.
TransformParser_parse_untransformed(m) ==
  IF Top(m).pc = "start"
  THEN Call(SetTop(m, "result", 0, 0, <<>>), Self(m).kids[1])
  ELSE IF is_not_null(m.ret)
       THEN Return(Transform(m, m.ret), m.ret)
       ELSE Return(m, Null)

TransformParser_parse(m) ==
  IF Top(m).pc = "start"
  THEN Call(SetTop(m, "result", 0, 0, <<>>), Self(m).kids[1])
  ELSE IF is_not_null(m.ret)
       THEN Return(Transform(m, m.ret), Transformation(Self(m).arg, m.ret))
       ELSE Return(m, Null)

\* ManyParser.parse without the reset after the attempt that fails.
ManyParser_parse_no_reset(m) ==
  IF Top(m).pc = "start"
  THEN Call(SetTop(m, "first_result", 0, 0, <<>>), Self(m).kids[1])
  ELSE IF Top(m).pc = "first_result"
  THEN IF is_not_null(m.ret)
       THEN Call(SetTop(m, "result", m.ctx.current_index, 0, <<m.ret>>),
                 Self(m).kids[1])
       ELSE Return(m, Null)
  ELSE IF is_not_null(m.ret)
       THEN Call(SetTop(m, "result", m.ctx.current_index, 0,
                        Append(Top(m).acc, m.ret)),
                 Self(m).kids[1])
       ELSE Return(m, List(Top(m).acc))

ManyParser_parse(m) ==
  IF Top(m).pc = "start"
  THEN Call(SetTop(m, "first_result", 0, 0, <<>>), Self(m).kids[1])
  ELSE IF Top(m).pc = "first_result"
  THEN IF is_not_null(m.ret)
       THEN Call(SetTop(m, "result", m.ctx.current_index, 0, <<m.ret>>),
                 Self(m).kids[1])
       ELSE Return(m, Null)
  ELSE IF is_not_null(m.ret)
       THEN Call(SetTop(m, "result", m.ctx.current_index, 0,
                        Append(Top(m).acc, m.ret)),
                 Self(m).kids[1])
       ELSE LET m1 == Reset(m, Top(m).current_index)
            IN  IF m1.status = "error" THEN m1
                ELSE Return(m1, List(Top(m).acc))

\* OptionalParser.parse returning the empty list without the reset.
OptionalParser_parse_no_reset(m) ==
  IF Top(m).pc = "start"
  THEN Call(SetTop(m, "result", m.ctx.current_index, 0, <<>>), Self(m).kids[1])
  ELSE IF is_not_null(m.ret)
       THEN Return(m, m.ret)
       ELSE Return(m, List(<<>>))

OptionalParser_parse(m) ==
  IF Top(m).pc = "start"
  THEN Call(SetTop(m, "result", m.ctx.current_index, 0, <<>>), Self(m).kids[1])
  ELSE IF is_not_null(m.ret)
       THEN Return(m, m.ret)
       ELSE LET m1 == Reset(m, Top(m).current_index)
            IN  IF m1.status = "error" THEN m1
                ELSE Return(m1, List(<<>>))

\* KleeneStarParser.parse taking the empty list for a failure.
KleeneStarParser_parse_nonempty(m) ==
  IF Top(m).pc = "start"
  THEN Call(SetTop(m, "result", 0, 0, <<>>), Self(m).kids[1])
  ELSE Return(m, IF m.ret = List(<<>>) THEN Null ELSE m.ret)

KleeneStarParser_parse(m) ==
  IF Top(m).pc = "start"
  THEN Call(SetTop(m, "result", 0, 0, <<>>), Self(m).kids[1])
  ELSE Return(m, m.ret)

\* ParserProducer: _ => Rule (the rule a variable holds when the parse
\* runs) and _ => Rule.zero_or_more() (a new KleeneStarParser each time).
\* The machine after the producer has run, and the parser it returned.
\* The producer _ => Rule where _ => Rule.zero_or_more() was meant.
Producer_rule(m) ==
  LET v == Self(m).kids[1]
  IN  [m |-> m, parser |-> IF v >= 1 /\ v <= Len(m.vars) THEN m.vars[v] ELSE 0]

Producer(m) ==
  LET v == Self(m).kids[1]
      rule == IF v >= 1 /\ v <= Len(m.vars) THEN m.vars[v] ELSE 0
      b == zero_or_more([nodes |-> m.nodes, vars |-> m.vars, failed |-> FALSE],
                        rule)
  IN  IF Self(m).arg = "zero_or_more" /\ rule # 0
      THEN [m |-> [m EXCEPT !.nodes = b.nodes], parser |-> Len(b.nodes)]
      ELSE [m |-> m, parser |-> rule]

DelayedParser_parse(m) ==
  IF Top(m).pc = "start"
  THEN LET p == Producer(SetTop(m, "result", 0, 0, <<>>))
       IN  Call(p.m, p.parser)
  ELSE Return(m, m.ret)

(***************************************************************************)
(* The grammars and the inputs of the model.                               *)
(***************************************************************************)
\* The characters an input is made of.
Elements == {Str("a"), Str("b")}

RECURSIVE SeqsUpTo(_, _)
SeqsUpTo(S, n) ==
  IF n = 0 THEN {<<>>}
  ELSE LET shorter == SeqsUpTo(S, n - 1)
       IN  shorter \cup {Append(s, x) : s \in {t \in shorter : Len(t) = n - 1}, x \in S}

\* An input array may hold null: the inputs with one entry replaced by it.
NullInputs ==
  UNION {{[s EXCEPT ![i] = Null] : i \in 1..Len(s)} :
           s \in SeqsUpTo(Elements, MaxNullLen)}

Inputs == SeqsUpTo(Elements, MaxLen) \cup NullInputs

\* match_a and match_b, the first two variables of every program.
Leaves == <<Stmt("m", 0, 0, "is_a"), Stmt("m", 0, 0, "is_b")>>

\* The methods the generated grammars are chained from.
ChainUnary == {"cut", "cache", "many", "optional"}
ChainBinary == {"or", "then"}

\* The programs that extend p by one call: on match_a or match_b to begin
\* with, then on the result of the call before; the argument is any parser
\* built so far.
Extend(p) ==
  LET receivers == IF Len(p) = 2 THEN {1, 2} ELSE {Len(p)}
  IN  {Append(p, Stmt(method, recv, 0, "")) :
         method \in ChainUnary, recv \in receivers}
      \cup {Append(p, Stmt(method, recv, other, "")) :
              method \in ChainBinary, recv \in receivers, other \in 1..Len(p)}

RECURSIVE Chains(_)
Chains(n) ==
  IF n = 0 THEN {Leaves}
  ELSE LET shorter == Chains(n - 1)
       IN  shorter \cup UNION {Extend(p) : p \in {q \in shorter : Len(q) = n + 1}}

\* Brackets.brackets = lbracket.then(Parser.delay(_ =>
\* Brackets.brackets.zero_or_more())).then(rbracket), with match_a for
\* lbracket and match_b for rbracket: variable 5 is the rule itself.
Brackets ==
  <<Stmt("delay", 0, 5, "zero_or_more"), Stmt("then", 1, 3, ""),
    Stmt("then", 4, 2, "")>>

\* Grammars written out: each is what follows Leaves, so variable 1 is
\* match_a and variable 2 is match_b.
Catalog ==
  { \* (a.cut then b) or a
    <<Stmt("cut", 1, 0, "after a"), Stmt("then", 3, 2, ""), Stmt("or", 4, 1, "")>>,
    \* ((a.cut then b) or a)?
    <<Stmt("cut", 1, 0, "after a"), Stmt("then", 3, 2, ""), Stmt("or", 4, 1, ""),
      Stmt("optional", 5, 0, "")>>,
    \* (a.cut then b)+ and ((a.cut then b)+)?
    <<Stmt("cut", 1, 0, "after a"), Stmt("then", 3, 2, ""), Stmt("many", 4, 0, "")>>,
    <<Stmt("cut", 1, 0, "after a"), Stmt("then", 3, 2, ""), Stmt("many", 4, 0, ""),
      Stmt("optional", 5, 0, "")>>,
    \* a.cache or b.cache
    <<Stmt("cache", 1, 0, ""), Stmt("cache", 2, 0, ""), Stmt("or", 3, 4, "")>>,
    \* N = a.cache, M = (N then b).cache: (M then a) or N
    <<Stmt("cache", 1, 0, ""), Stmt("then", 3, 2, ""), Stmt("cache", 4, 0, ""),
      Stmt("then", 5, 1, ""), Stmt("or", 6, 3, "")>>,
    \* a?.cache then b.cache
    <<Stmt("optional", 1, 0, ""), Stmt("cache", 3, 0, ""), Stmt("cache", 2, 0, ""),
      Stmt("then", 4, 5, "")>>,
    \* N = (a then b).cache: (N then b) or (N then a): one node, twice at 0
    <<Stmt("then", 1, 2, ""), Stmt("cache", 3, 0, ""), Stmt("then", 4, 2, ""),
      Stmt("then", 4, 1, ""), Stmt("or", 5, 6, "")>>,
    \* a then b then a, and (a then b) or b or a, chained
    <<Stmt("then", 1, 2, ""), Stmt("then", 3, 1, "")>>,
    <<Stmt("then", 1, 2, ""), Stmt("or", 3, 2, ""), Stmt("or", 4, 1, "")>>,
    \* the four hooks around a
    <<Stmt("on_enter", 1, 0, "trace"), Stmt("on_success", 3, 0, "trace"),
      Stmt("on_failure", 4, 0, "trace"), Stmt("on_exit", 5, 0, "trace")>>,
    \* the hooks around a transformed to undefined
    <<Stmt("transformer", 1, 0, "undefined"), Stmt("on_success", 3, 0, "trace"),
      Stmt("on_failure", 4, 0, "trace"), Stmt("on_exit", 5, 0, "trace")>>,
    \* a.affirm then a, b.deny then a
    <<Stmt("affirm", 1, 0, ""), Stmt("then", 3, 1, "")>>,
    <<Stmt("deny", 2, 0, ""), Stmt("then", 3, 1, "")>>,
    \* a+ transformed, a transformed to an absent value
    <<Stmt("many", 1, 0, ""), Stmt("transformer", 3, 0, "empty_string")>>,
    <<Stmt("transformer", 1, 0, "null"), Stmt("or", 3, 2, "")>>,
    \* guarded a
    <<Stmt("guard", 1, 0, "has_element")>>,
    <<Stmt("guard", 1, 0, "never"), Stmt("or", 3, 2, "")>>,
    \* a* then b
    <<Stmt("zero_or_more", 1, 0, ""), Stmt("then", 3, 2, "")>>,
    Brackets,
    \* a rule referred to before it is parsed with
    <<Stmt("delay", 0, 1, "rule"), Stmt("then", 3, 2, "")>>,
    \* S = a*: (S then b) or (S then a), S run twice where the rule starts
    <<Stmt("zero_or_more", 1, 0, ""), Stmt("then", 3, 2, ""),
      Stmt("then", 3, 1, ""), Stmt("or", 4, 5, "")>>,
    \* any = m(x => true), T = any*: (T then b) or T
    <<Stmt("m", 0, 0, "any"), Stmt("zero_or_more", 3, 0, ""),
      Stmt("then", 4, 2, ""), Stmt("or", 5, 4, "")>>,
    \* a transformed to "", looked ahead at: affirmed then a, denied or b
    <<Stmt("transformer", 1, 0, "empty_string"), Stmt("affirm", 3, 0, ""),
      Stmt("then", 4, 1, "")>>,
    <<Stmt("transformer", 1, 0, "empty_string"), Stmt("deny", 3, 0, ""),
      Stmt("or", 4, 2, "")>>,
    \* a combinator given no parser or no function
    <<Stmt("or", 1, 0, "")>>,
    <<Stmt("then", 1, 0, "")>>,
    <<Stmt("transformer", 1, 0, ""), Stmt("or", 3, 2, "")>>,
    <<Stmt("on_exit", 1, 0, "")>>,
    \* a then b then (a rule not yet assigned) then a, as the non_empty_list
    \* of the s-expression grammar, and (b or a) or (such a rule) or a
    <<Stmt("then", 1, 2, ""), Stmt("then", 3, 0, ""), Stmt("then", 4, 1, "")>>,
    <<Stmt("or", 2, 1, ""), Stmt("or", 3, 0, ""), Stmt("or", 4, 1, "")>>,
    \* a.cut then ((b then b) or b.cut): a reset between two cuts
    <<Stmt("cut", 1, 0, "after a"), Stmt("then", 2, 2, ""),
      Stmt("cut", 2, 0, "after b"), Stmt("or", 4, 5, ""), Stmt("then", 3, 6, "")>>,
    \* ((a then a).cut then b) or a.cut: a cut asked for behind a cut
    <<Stmt("then", 1, 1, ""), Stmt("cut", 3, 0, "after a a"),
      Stmt("then", 4, 2, ""), Stmt("cut", 1, 0, "after a"), Stmt("or", 5, 6, "")>>,
    \* S = a then b, A = S or a, then S.then(a) and A.or(b): S is extended
    \* after A has taken it as a child
    <<Stmt("then", 1, 2, ""), Stmt("or", 3, 1, ""), Stmt("then", 3, 1, ""),
      Stmt("or", 4, 2, "")>>,
    \* N = b.cache: a.cut then ((N then b) or (N then a)), a memo hit
    \* replayed behind a cut
    <<Stmt("cut", 1, 0, "after a"), Stmt("cache", 2, 0, ""),
      Stmt("then", 4, 2, ""), Stmt("then", 4, 1, ""), Stmt("or", 5, 6, ""),
      Stmt("then", 3, 7, "")>>,
    \* a.cut then b* then a
    <<Stmt("cut", 1, 0, "after a"), Stmt("zero_or_more", 2, 0, ""),
      Stmt("then", 3, 4, ""), Stmt("then", 5, 1, "")>> }

Programs == Chains(MaxChain) \cup {Leaves \o p : p \in Catalog}

\* The inputs a grammar is parsed on: every input, and for the bracket
\* grammar the longer strings of brackets as well.
InputsFor(p) ==
  IF p = Leaves \o Brackets
  THEN Inputs \cup SeqsUpTo(Elements, MaxBracketLen)
  ELSE Inputs

(***************************************************************************)
(* The state machine.                                                      *)
(***************************************************************************)
\* Before the grammar is built: no node, no variable assigned, and no
\* context yet (parse_input makes it), which the context of no input
\* stands for.
Init ==
  /\ program \in Programs
  /\ nodes = <<>>
  /\ vars = <<>>
  /\ ctx = IndexableContext(<<>>)
  /\ stack = <<>>
  /\ ret = Undefined
  /\ status = "constructing"
  /\ log = <<>>

\* The next call of the construction program: a factory or a combinator
\* method, whose constructor may throw.  Every call that returns assigns
\* one variable, so the call to run is the one after the variables.
construct ==
  /\ status = "constructing"
  /\ LET b == Construct([nodes |-> nodes, vars |-> vars, failed |-> FALSE],
                        program[Len(vars) + 1])
     IN  /\ nodes' = b.nodes
         /\ vars' = b.vars
         /\ status' = IF b.failed THEN "construction_error"
                      ELSE IF Len(b.vars) = Len(program) THEN "ready"
                      ELSE "constructing"
  /\ UNCHANGED <<program, ctx, stack, ret, log>>

Commit(m) ==
  /\ nodes' = m.nodes
  /\ ctx' = m.ctx
  /\ stack' = m.stack
  /\ ret' = m.ret
  /\ status' = m.status
  /\ log' = m.log
  /\ UNCHANGED <<program, vars>>

\* The parse method of a node of class kind is running or resuming.
Running(kind) ==
  /\ status = "running"
  /\ Len(log) < MaxLog
  /\ stack # <<>>
  /\ nodes[stack[Len(stack)].node].kind = kind

\* Parser.parse_input: the rule's parse is called on a new context.
parse_input ==
  /\ status = "ready"
  /\ \E input \in InputsFor(program) :
     Commit([Cur EXCEPT
       !.ctx = IndexableContext(input),
       !.status = "running",
       !.stack = <<Frame(vars[Len(vars)], 0)>>,
       !.log = <<Event("call", vars[Len(vars)], 0, 1, 0, 0, Undefined, FALSE)>>])

BasicParserParse == Running("Basic") /\ Commit(BasicParser_parse(Cur))
OnExitParserParse == Running("OnExit") /\ Commit(OnExitParser_parse(Cur))
CutParserParse == Running("Cut") /\ Commit(CutParser_parse(Cur))
CachingParserParse == Running("Caching") /\ Commit(CachingParser_parse(Cur))
GuardParserParse == Running("Guard") /\ Commit(GuardParser_parse(Cur))
OnFailureParserParse == Running("OnFailure") /\ Commit(OnFailureParser_parse(Cur))
OnSuccessParserParse == Running("OnSuccess") /\ Commit(OnSuccessParser_parse(Cur))
OnEnterParserParse == Running("OnEnter") /\ Commit(OnEnterParser_parse(Cur))
PositiveLookaheadParserParse ==
  Running("PositiveLookahead") /\ Commit(PositiveLookaheadParser_parse(Cur))
NegativeLookaheadParserParse ==
  Running("NegativeLookahead") /\ Commit(NegativeLookaheadParser_parse(Cur))
AlternationParserParse == Running("Alternation") /\ Commit(AlternationParser_parse(Cur))
SequenceParserParse == Running("Sequence") /\ Commit(SequenceParser_parse(Cur))
TransformParserParse == Running("Transform") /\ Commit(TransformParser_parse(Cur))
ManyParserParse == Running("Many") /\ Commit(ManyParser_parse(Cur))
OptionalParserParse == Running("Optional") /\ Commit(OptionalParser_parse(Cur))
KleeneStarParserParse == Running("KleeneStar") /\ Commit(KleeneStarParser_parse(Cur))
DelayedParserParse == Running("Delayed") /\ Commit(DelayedParser_parse(Cur))

Next ==
  \/ construct
  \/ parse_input
  \/ BasicParserParse
  \/ OnExitParserParse
  \/ CutParserParse
  \/ CachingParserParse
  \/ GuardParserParse
  \/ OnFailureParserParse
  \/ OnSuccessParserParse
  \/ OnEnterParserParse
  \/ PositiveLookaheadParserParse
  \/ NegativeLookaheadParserParse
  \/ AlternationParserParse
  \/ SequenceParserParse
  \/ TransformParserParse
  \/ ManyParserParse
  \/ OptionalParserParse
  \/ KleeneStarParserParse
  \/ DelayedParserParse

Spec == Init /\ [][Next]_state

(***************************************************************************)
(* Properties.  They are stated over the trace of the parse.               *)
(***************************************************************************)
Last == log[Len(log)]
KindOf(n) == nodes[n].kind
Events(ev) == {i \in DOMAIN log : log[i].ev = ev}
Raised == {j \in Events("reset") : log[j].flag}

\* C1: cut enforcement.  Once a cut has been placed at position k, every
\* later reset(j) with j < k raises the commitment violation: it is the
\* last thing the parse does, the parse ends in the error and the cursor
\* has not moved.
CutEnforcement ==
  \A i \in Events("cut") : \A j \in Events("reset") :
    (i < j /\ log[j].arg < log[i].pos)
      => /\ log[j].flag
         /\ j = Len(log)
         /\ status = "error"
         /\ ctx.current_index = log[j].pos

\* A reset behind an earlier cut has been asked for.
CutEnforcementWitness ==
  \E i \in Events("cut") : \E j \in Events("reset") :
    i < j /\ log[j].arg < log[i].pos

\* C2: a commitment violation is never absorbed.  Once reset has raised,
\* nothing more happens in the parse (no alternative is tried, nothing
\* returns), no parse method is active and the parse has ended in the error,
\* not in a result.
ViolationNotAbsorbed ==
  \A j \in Raised :
    /\ j = Len(log)
    /\ stack = <<>>
    /\ status = "error"

\* A reset has raised inside an alternation, a repetition or an optional
\* that was still active.
ViolationNotAbsorbedWitness ==
  \E j \in Raised :
    /\ log[j].depth >= 2
    /\ \E i \in Events("call") :
         /\ i < j
         /\ log[i].depth < log[j].depth
         /\ KindOf(log[i].node) \in {"Alternation", "Many", "Optional"}
         /\ ~\E r \in Events("return") :
               i < r /\ r < j /\ log[r].depth = log[i].depth

(***************************************************************************)
(* The trace, by invocation.                                               *)
(***************************************************************************)
Greatest(S) == CHOOSE x \in S : \A y \in S : y <= x
Least(S) == CHOOSE x \in S : \A y \in S : x <= y

\* The call that the return at j (or any event of that frame) belongs to.
CallOf(j) ==
  Greatest({i \in 1..j : log[i].ev = "call" /\ log[i].depth = log[j].depth})

\* The events ev of the children called between the call at i and the
\* event at j of the same frame, in order.
Children(i, j, ev) ==
  LET Is(k) == log[k].ev = ev /\ log[k].depth = log[i].depth + 1
  IN  SelectSeq([k \in 1..(j - i) |-> i + k], Is)

\* The parse method of a node of class kind has just returned.
Returned(kind) ==
  /\ log # <<>>
  /\ Last.ev = "return"
  /\ KindOf(Last.node) = kind

(***************************************************************************)
(* The same parse without memoization: the machine run from the call of    *)
(* the rule to the end, on the grammar in which every CachingParser is     *)
(* replaced by a node that does nothing but call its child.                *)
(***************************************************************************)
\* parser.parse(input), by the class of the parser.
Dispatch(m) ==
  LET kind == Self(m).kind
  IN  CASE kind = "Basic" -> BasicParser_parse(m)
        [] kind = "OnExit" -> OnExitParser_parse(m)
        [] kind = "Cut" -> CutParser_parse(m)
        [] kind = "Caching" -> CachingParser_parse(m)
        [] kind = "Guard" -> GuardParser_parse(m)
        [] kind = "OnFailure" -> OnFailureParser_parse(m)
        [] kind = "OnSuccess" -> OnSuccessParser_parse(m)
        [] kind = "OnEnter" -> OnEnterParser_parse(m)
        [] kind = "PositiveLookahead" -> PositiveLookaheadParser_parse(m)
        [] kind = "NegativeLookahead" -> NegativeLookaheadParser_parse(m)
        [] kind = "Alternation" -> AlternationParser_parse(m)
        [] kind = "Sequence" -> SequenceParser_parse(m)
        [] kind = "Transform" -> TransformParser_parse(m)
        [] kind = "Many" -> ManyParser_parse(m)
        [] kind = "Optional" -> OptionalParser_parse(m)
        [] kind = "KleeneStar" -> KleeneStarParser_parse(m)
        [] kind = "Delayed" -> DelayedParser_parse(m)

RECURSIVE RunToEnd(_)
RunToEnd(m) ==
  IF m.status # "running" \/ Len(m.log) >= MaxLog THEN m
  ELSE RunToEnd(Dispatch(m))

WithoutCache(heap) ==
  [i \in DOMAIN heap |->
     IF heap[i].kind = "Caching" THEN Node("Guard", heap[i].kids, "always")
     ELSE heap[i]]

Unmemoized ==
  RunToEnd([nodes |-> WithoutCache(nodes), vars |-> vars,
            ctx |-> IndexableContext(ctx.input),
            stack |-> <<Frame(vars[Len(vars)], 0)>>,
            ret |-> Undefined, status |-> "running",
            log |-> <<Event("call", vars[Len(vars)], 0, 1, 0, 0, Undefined, FALSE)>>])

Memoized == {n \in DOMAIN nodes : nodes[n].kind = "Caching"}

\* C3: memoization transparency.  A parse that has ended has the outcome
\* (result, error and final position) of the same parse without the
\* memoization wrappers.
MemoizationTransparent ==
  (status \in {"done", "error"} /\ Memoized # {})
    => LET plain == Unmemoized
       IN  plain.status = "running"
           \/ /\ plain.status = status
              /\ status = "done" => /\ plain.ret = ret
                                    /\ plain.ctx.current_index = ctx.current_index

\* C4: the memo table is keyed by the node.  The entry a memoized node
\* reads at a position is the one stored there by that node.
MemoKeyedByNode ==
  \A j \in Events("hit") :
    LET stores == {i \in Events("store") : i < j /\ log[i].arg = log[j].pos}
    IN  stores # {} /\ log[Greatest(stores)].node = log[j].node

\* C5: one real computation for each memoized node and position.  The child
\* of a memoized node is called at most once at a position; the first
\* invocation of the node there stores the result and the ending position;
\* every later one returns what that first one stored, with the cursor at
\* the stored ending position, and does not call the child.
MemoOncePerPosition ==
  /\ \A i \in Events("call") : \A k \in Events("call") :
       (log[i].by \in Memoized /\ log[k].by = log[i].by /\ log[k].pos = log[i].pos)
         => k = i
  /\ Returned("Caching")
       => LET j == Len(log)
              i == CallOf(j)
              n == Last.node
              earlier == {k \in Events("call") :
                            k < i /\ log[k].node = n /\ log[k].pos = log[i].pos}
              stored == {k \in Events("store") :
                           log[k].node = n /\ log[k].arg = log[i].pos}
          IN  /\ stored # {}
              /\ earlier = {} => Children(i, j, "call") # <<>>
              /\ earlier # {} => Children(i, j, "call") = <<>>
              /\ Last.val = log[Least(stored)].val
              /\ Last.pos = log[Least(stored)].pos

\* The values the calls at the indices rets returned.
Values(rets) == [k \in 1..Len(rets) |-> log[rets[k]].val]

\* C6: the match primitive.  When the element at the position of the call
\* exists (is not null or undefined) and satisfies the matcher, the node
\* returns that element and the position is one more; in every other case
\* (the matcher rejects it, or there is no element there) it returns
\* failure and the position is that of the call.
MatchPrimitive ==
  Returned("Basic")
    => LET start == Last.arg
           element == ElementAt(ctx.input, start)
       IN  IF is_not_null(element) /\ Matcher(nodes[Last.node].arg, element)
           THEN Last.val = element /\ ret = element
                /\ ctx.current_index = start + 1
           ELSE Last.val = Null /\ ret = Null
                /\ ctx.current_index = start

\* A match that consumed an element past the first, and one rejected there.
MatchPrimitiveWitness ==
  /\ Returned("Basic")
  /\ Last.arg >= 1
  /\ Last.val = Str("b")
  /\ \E j \in Events("return") :
       /\ KindOf(log[j].node) = "Basic"
       /\ log[j].val = Null
       /\ log[j].arg >= 1
       /\ log[j].arg < Len(ctx.input)

\* Every entry of the child list of node n is a parser.
AllParsers(n) == \A k \in DOMAIN nodes[n].kids : nodes[n].kids[k] # 0

\* C7: ordered choice.  An alternation of parsers that returns has called
\* its children in the order of declaration, each with the cursor at the
\* position the alternation was called at; every child but the last called
\* failed; a child after the last called exists only if that one did not
\* fail; the result and the final position are those of the last called.
OrderedChoice ==
  (Returned("Alternation") /\ AllParsers(Last.node))
    => LET j == Len(log)
           i == CallOf(j)
           alternatives == nodes[Last.node].kids
           calls == Children(i, j, "call")
           rets == Children(i, j, "return")
           n == Len(calls)
       IN  /\ n >= 1 /\ n <= Len(alternatives) /\ Len(rets) = n
           /\ \A k \in 1..n :
                /\ log[calls[k]].node = alternatives[k]
                /\ log[calls[k]].pos = log[i].pos
           /\ \A k \in 1..(n - 1) : is_null(log[rets[k]].val)
           /\ n < Len(alternatives) => is_not_null(log[rets[n]].val)
           /\ Last.val = log[rets[n]].val
           /\ Last.pos = log[rets[n]].pos
           /\ ctx.current_index = log[rets[n]].pos

\* A.or(B) where A failed after consuming and B then succeeded.
OrderedChoiceWitness ==
  /\ Returned("Alternation")
  /\ is_not_null(Last.val)
  /\ LET rets == Children(CallOf(Len(log)), Len(log), "return")
     IN  /\ Len(rets) = 2
         /\ is_null(log[rets[1]].val)
         /\ log[rets[1]].pos > Last.arg
         /\ Last.pos = Last.arg + 1

\* C8: a sequence that fails does not rewind.  When a child of a sequence
\* returns failure, the next thing that happens is the return of the
\* sequence, with failure, the cursor where that child left it.
SequenceNoRewind ==
  \A j \in Events("return") :
    (j < Len(log) /\ is_null(log[j].val) /\ log[j].by # 0
       /\ KindOf(log[j].by) = "Sequence")
      => /\ log[j + 1].ev = "return"
         /\ log[j + 1].node = log[j].by
         /\ log[j + 1].depth = log[j].depth - 1
         /\ log[j + 1].val = Null
         /\ log[j + 1].pos = log[j].pos

\* seq(A, B) has failed at B, one past the position it started at.
SequenceNoRewindWitness ==
  /\ Returned("Sequence")
  /\ Last.val = Null
  /\ Len(Children(CallOf(Len(log)), Len(log), "return")) = 2
  /\ Last.pos = Last.arg + 1
  /\ ctx.current_index = Last.arg + 1

\* C9: the result of a sequence.  A sequence of n >= 2 parsers that
\* returns has called them in order, the first where the sequence was
\* called and each next one where the one before ended; it succeeds exactly
\* when all n were called and succeeded, and its result is then the list of
\* their n results in order.
SequenceResult ==
  (Returned("Sequence") /\ AllParsers(Last.node))
    => LET j == Len(log)
           i == CallOf(j)
           sequence == nodes[Last.node].kids
           calls == Children(i, j, "call")
           rets == Children(i, j, "return")
       IN  /\ Len(sequence) >= 2 /\ Len(rets) = Len(calls)
           /\ Len(calls) <= Len(sequence)
           /\ \A k \in 1..Len(calls) :
                /\ log[calls[k]].node = sequence[k]
                /\ log[calls[k]].pos =
                     IF k = 1 THEN log[i].pos ELSE log[rets[k - 1]].pos
           /\ is_not_null(Last.val)
                <=> /\ Len(rets) = Len(sequence)
                    /\ \A k \in 1..Len(rets) : is_not_null(log[rets[k]].val)
           /\ is_not_null(Last.val) => Last.val = List(Values(rets))

\* A sequence grown by a chained then has returned its three results.
SequenceResultWitness ==
  /\ Returned("Sequence")
  /\ Len(nodes[Last.node].kids) = 3
  /\ Last.val.t = "object" /\ Len(Last.val.l) = 3
  /\ Last.val.l[1] # Last.val.l[2]

\* C10: one or more.  A repetition that returns has failed if the first
\* attempt of its child failed; otherwise every attempt but the last
\* succeeded, the result is the list of their results in order, and the
\* cursor is where the last successful attempt ended.
OneOrMore ==
  Returned("Many")
    => LET j == Len(log)
           rets == Children(CallOf(j), j, "return")
           n == Len(rets)
       IN  /\ n >= 1
           /\ IF is_null(log[rets[1]].val)
              THEN Last.val = Null /\ n = 1
              ELSE /\ is_null(log[rets[n]].val)
                   /\ \A k \in 1..(n - 1) : is_not_null(log[rets[k]].val)
                   /\ Last.val = List(Values(SubSeq(rets, 1, n - 1)))
                   /\ Last.pos = log[rets[n - 1]].pos
                   /\ ctx.current_index = log[rets[n - 1]].pos

\* A repetition whose last attempt consumed an element before it failed.
OneOrMoreWitness ==
  /\ Returned("Many")
  /\ is_not_null(Last.val)
  /\ LET rets == Children(CallOf(Len(log)), Len(log), "return")
     IN  log[rets[Len(rets)]].pos > Last.pos

\* The last event is a reset by a node of class kind that raised.
RaisedBy(kind) ==
  /\ log # <<>>
  /\ Last.ev = "reset"
  /\ Last.flag
  /\ KindOf(Last.node) = kind

\* The return of the one child call of the frame whose event is at j.
ChildReturn(j) == log[Children(CallOf(j), j, "return")[1]]

\* An optional that returns has called its child once; it returns the
\* child's result when that is present, the cursor where the child left it,
\* and otherwise the empty list, the cursor where the optional was called.
OptionalReturns ==
  Returned("Optional")
    => LET rets == Children(CallOf(Len(log)), Len(log), "return")
           child == log[rets[1]]
       IN  /\ Len(rets) = 1
           /\ is_not_null(Last.val)
           /\ IF is_not_null(child.val)
              THEN /\ Last.val = child.val
                   /\ Last.pos = child.pos
                   /\ ctx.current_index = child.pos
              ELSE /\ Last.val = List(<<>>)
                   /\ Last.pos = Last.arg
                   /\ ctx.current_index = Last.arg

StarOfMatch(n) ==
  /\ KindOf(n) = "KleeneStar"
  /\ LET optional == nodes[n].kids[1]
         many == nodes[optional].kids[1]
     IN  KindOf(nodes[many].kids[1]) = "Basic"
MatcherOfStar(n) ==
  nodes[nodes[nodes[nodes[n].kids[1]].kids[1]].kids[1]].arg
PartsOfStar(n) == {n, nodes[n].kids[1], nodes[nodes[n].kids[1]].kids[1]}

\* The length of the longest run of elements from index i on that exist
\* and satisfy the matcher.
RECURSIVE RunLength(_, _, _)
RunLength(input, i, name) ==
  IF is_not_null(ElementAt(input, i)) /\ Matcher(name, ElementAt(input, i))
  THEN 1 + RunLength(input, i + 1, name)
  ELSE 0

\* C12: zero_or_more of a match.  It always succeeds: its result is the
\* list of the longest run of matching elements from the position it was
\* called at (empty when the first does not match), the cursor ends after
\* that run, every earlier run of the same node from the same position of
\* the same input gave the same list and the same ending position, and no
\* reset of it raises.
ZeroOrMoreOfMatch ==
  /\ (Returned("KleeneStar") /\ StarOfMatch(Last.node))
       => LET start == Last.arg
              n == RunLength(ctx.input, start, MatcherOfStar(Last.node))
          IN  /\ Last.val = List([k \in 1..n |-> ctx.input[start + k]])
              /\ Last.pos = start + n
              /\ ctx.current_index = start + n
              /\ \A j \in Events("return") :
                   (log[j].node = Last.node /\ log[j].arg = start)
                     => log[j].val = Last.val /\ log[j].pos = Last.pos
  /\ \A n \in DOMAIN nodes :
       (KindOf(n) = "KleeneStar" /\ StarOfMatch(n))
         => ~(log # <<>> /\ Last.ev = "reset" /\ Last.flag
               /\ Last.node \in PartsOfStar(n))

\* The same zero_or_more of a match has run a second time from one
\* position, behind a cut or not, and matched two elements or more.
ZeroOrMoreOfMatchWitness ==
  /\ Returned("KleeneStar")
  /\ StarOfMatch(Last.node)
  /\ Len(Last.val.l) >= 2
  /\ \E j \in Events("return") :
       j < Len(log) /\ log[j].node = Last.node /\ log[j].arg = Last.arg

\* C13: lookahead is decided by whether the child succeeds.  A positive
\* lookahead that returns succeeds exactly when its child returned a
\* present result, and then with that result; a negative lookahead that
\* returns succeeds exactly when its child returned failure, and then with a
\* truthy marker; in both successes the cursor is where the lookahead was
\* called.
LookaheadByPresence ==
  /\ Returned("PositiveLookahead")
       => LET child == ChildReturn(Len(log))
          IN  /\ is_not_null(Last.val) <=> is_not_null(child.val)
              /\ is_not_null(child.val)
                   => Last.val = child.val /\ ctx.current_index = Last.arg
  /\ Returned("NegativeLookahead")
       => LET child == ChildReturn(Len(log))
          IN  /\ is_not_null(Last.val) <=> is_null(child.val)
              /\ is_null(child.val)
                   => Truthy(Last.val) /\ ctx.current_index = Last.arg

\* C14: a missing child or callback fails at construction.  No graph that
\* holds an absent child is ever parsed with: once parse_input has been
\* called, every entry of every node's child list is a parser, and so
\* every sequence that succeeds returns as many results as its list has
\* entries.
ConstructionRejectsAbsent ==
  status \in {"running", "done", "error"}
    => /\ \A n \in DOMAIN nodes : KindOf(n) # "Delayed" => AllParsers(n)
       /\ (Returned("Sequence") /\ is_not_null(Last.val))
            => Len(Last.val.l) = Len(nodes[Last.node].kids)

\* C15: the cursor invariant.  In every state, after construction, advance,
\* reset (raising or not) and the replay of a memo hit, current_element is
\* the value of the input at current_index, or undefined when current_index
\* is outside the input.
CursorInvariant ==
  ctx.current_element =
    IF ctx.current_index \in 0..(Len(ctx.input) - 1)
    THEN ctx.input[ctx.current_index + 1]
    ELSE Undefined

\* The cursor has advanced, has been reset backward, has replayed a memo
\* hit forward, and stands at the end of a non-empty input.
CursorInvariantWitness ==
  /\ Events("advance") # {}
  /\ \E j \in Events("reset") : ~log[j].flag /\ log[j].arg < log[j].pos
  /\ \E j \in Events("hit") : log[j].arg > log[j].pos
  /\ ctx.current_index = Len(ctx.input)
  /\ ctx.input # <<>>
  /\ status = "done"

\* The grammar being parsed with is the bracket grammar, on a string of
\* brackets.
IsBrackets ==
  /\ vars = Build(Leaves \o Brackets).vars
  /\ SubSeq(nodes, 1, 4) = Build(Leaves \o Brackets).nodes
  /\ \A i \in DOMAIN ctx.input : ctx.input[i] \in Elements

\* The end of the balanced group that begins the string, by counting: the
\* index after the bracket that closes the first one, 0 when there is none.
RECURSIVE Closing(_, _, _)
Closing(input, i, open) ==
  IF i > Len(input) THEN 0
  ELSE IF input[i] = Str("a") THEN Closing(input, i + 1, open + 1)
  ELSE IF open = 1 THEN i
  ELSE IF open = 0 THEN 0
  ELSE Closing(input, i + 1, open - 1)

\* C16: the bracket grammar.  On every string of brackets its parse ends,
\* without an error and within the length the model allows a trace; it
\* succeeds exactly when the string begins with a balanced group, and the
\* cursor is then just after that group.
BracketsBalanced ==
  IsBrackets
    => /\ status # "error"
       /\ Len(log) < MaxLog
       /\ status = "done"
            => LET end == Closing(ctx.input, 1, 0)
               IN  IF end > 0
                   THEN is_not_null(ret) /\ ctx.current_index = end
                   ELSE is_null(ret)

\* "[[]]" has been parsed completely.
BracketsBalancedWitness ==
  /\ IsBrackets
  /\ status = "done"
  /\ ctx.input = <<Str("a"), Str("a"), Str("b"), Str("b")>>
  /\ is_not_null(ret)
  /\ ctx.current_index = 4

\* The frame that has just returned called its transformation, block or
\* other function ev right before it returned.
JustCalled(ev) ==
  /\ Len(log) >= 2
  /\ log[Len(log) - 1].ev = ev
  /\ log[Len(log) - 1].node = Last.node
  /\ log[Len(log) - 1].depth = Last.depth

\* C17 amended: transform.  A transform node that returns has called its
\* child once; when the child succeeded with r it has invoked f on r and
\* returns f(r), whatever that is, so that it succeeds exactly when f(r) is
\* a present value; when the child failed it returns failure and has not
\* invoked f; either way the cursor is where the child left it.
TransformResult ==
  Returned("Transform")
    => LET child == ChildReturn(Len(log))
           f == nodes[Last.node].arg
       IN  /\ Len(Children(CallOf(Len(log)), Len(log), "return")) = 1
           /\ IF is_not_null(child.val)
              THEN /\ JustCalled("transform")
                   /\ log[Len(log) - 1].val = child.val
                   /\ Last.val = Transformation(f, child.val)
              ELSE /\ ~JustCalled("transform")
                   /\ Last.val = Null
           /\ Last.pos = child.pos
           /\ ctx.current_index = child.pos

\* C17 as stated: the same, and whenever the child succeeds the transform
\* node succeeds, for every value f returns.
TransformAlwaysSucceeds ==
  /\ TransformResult
  /\ (Returned("Transform") /\ is_not_null(ChildReturn(Len(log)).val))
       => is_not_null(Last.val)

\* A transform whose child consumed an element and succeeded has returned
\* something other than the child's result.
TransformResultWitness ==
  /\ Returned("Transform")
  /\ is_not_null(ChildReturn(Len(log)).val)
  /\ ChildReturn(Len(log)).pos > Last.arg
  /\ Last.val # ChildReturn(Len(log)).val

\* C18: cuts never move the boundary backward.  In every step of a parse,
\* whatever it does (advance, reset, cut, memo hit), a cut_point that is
\* set is not decreased.
CutMonotonic ==
  [][ctx.cut_point # NoCut => ctx'.cut_point >= ctx.cut_point]_state

\* A cut, then a reset that moved the cursor backward, then a cut that
\* moved the boundary forward.
CutMonotonicWitness ==
  \E i, j \in Events("cut") : \E k \in Events("reset") :
    /\ i < k /\ k < j
    /\ ~log[k].flag /\ log[k].arg < log[k].pos
    /\ log[j].pos > log[i].pos
    /\ ctx.cut_point = log[j].pos

\* C19: chaining flattens in place.  A step of construction that calls .or
\* on an alternation or .then on a sequence adds no node: it appends the
\* argument to the list of the receiver, changes no other node, and the
\* variable it assigns holds the receiver, so that every variable and every
\* parent that held the node holds it with the longer list.  A step that
\* calls any other method and does not throw assigns a node that did not
\* exist, and changes no node that did.
ChainingFlattens ==
  [][status = "constructing"
       => LET s == program[Len(vars) + 1]
              this == IF s.recv = 0 THEN 0 ELSE vars[s.recv]
              other == IF s.other = 0 THEN 0 ELSE vars[s.other]
              chained ==
                /\ this # 0
                /\ \/ s.method = "or" /\ nodes[this].kind = "Alternation"
                   \/ s.method = "then" /\ nodes[this].kind = "Sequence"
          IN  IF chained
              THEN /\ status' # "construction_error"
                   /\ vars' = Append(vars, this)
                   /\ Len(nodes') = Len(nodes)
                   /\ nodes'[this].kind = nodes[this].kind
                   /\ nodes'[this].kids = Append(nodes[this].kids, other)
                   /\ \A n \in DOMAIN nodes : n # this => nodes'[n] = nodes[n]
              ELSE \/ status' = "construction_error" /\ nodes' = nodes
                   \/ /\ vars' = Append(vars, Len(nodes'))
                      /\ Len(nodes') > Len(nodes)
                      /\ \A n \in DOMAIN nodes : nodes'[n] = nodes[n]
    ]_state

\* A sequence extended after an alternation had taken it as a child: the
\* alternation, extended in place too, has parsed with the three elements
\* of the sequence.
ChainingFlattensWitness ==
  /\ status = "done"
  /\ \E n \in DOMAIN nodes :
       /\ vars[Len(vars)] = n
       /\ KindOf(n) = "Alternation"
       /\ Len(nodes[n].kids) = 3
       /\ KindOf(nodes[n].kids[1]) = "Sequence"
       /\ Len(nodes[nodes[n].kids[1]].kids) = 3
       /\ Cardinality({v \in DOMAIN vars : vars[v] = nodes[n].kids[1]}) = 2
  /\ ret = List(<<Str("a"), Str("b"), Str("a")>>)

\* The calls of its block that the frame called at i and returning at j
\* has made.
Blocks(i, j) ==
  {k \in i..j : log[k].ev = "block" /\ log[k].depth = log[i].depth}

\* C20: lifecycle hooks are transparent.  A hook node that returns has
\* called its child once and returns the child's result, the cursor where
\* the child left it.  OnEnter has run its block once, before the call of
\* the child; OnSuccess once, after the child and with its result, exactly
\* when that result is present; OnFailure likewise exactly when it is
\* absent; OnExit once after the child, whatever the result.
HooksTransparent ==
  (log # <<>> /\ Last.ev = "return"
     /\ KindOf(Last.node) \in {"OnEnter", "OnSuccess", "OnFailure", "OnExit"})
    => LET j == Len(log)
           i == CallOf(j)
           kind == KindOf(Last.node)
           calls == Children(i, j, "call")
           child == ChildReturn(j)
           after == /\ Blocks(i, j) = {j - 1}
                    /\ log[j - 1].val = child.val
                    /\ log[j - 1].pos = child.pos
       IN  /\ Len(calls) = 1
           /\ Len(Children(i, j, "return")) = 1
           /\ Last.val = child.val
           /\ ret = child.val
           /\ Last.pos = child.pos
           /\ ctx.current_index = child.pos
           /\ kind = "OnEnter" => Blocks(i, j) = {i + 1} /\ calls[1] = i + 2
           /\ kind = "OnSuccess" =>
                IF is_not_null(child.val) THEN after ELSE Blocks(i, j) = {}
           /\ kind = "OnFailure" =>
                IF is_null(child.val) THEN after ELSE Blocks(i, j) = {}
           /\ kind = "OnExit" => after

\* The four hooks, one around the other, have returned a failure.
HooksTransparentWitness ==
  /\ Returned("OnExit")
  /\ is_null(Last.val)
  /\ \A kind \in {"OnEnter", "OnSuccess", "OnFailure"} :
       \E j \in Events("return") : KindOf(log[j].node) = kind

\* The input holds no null or undefined element.
NoAbsentElement == \A i \in DOMAIN ctx.input : is_not_null(ctx.input[i])

\* C21: position bounds.  On an input of length n without null or
\* undefined elements, in every state the cursor is within 0..n and, once
\* a cut is placed, not before the cut; hence every node that returns
\* leaves the cursor at or after the position it was called at, and the
\* reset of a memo hit never raises.
PositionBounds ==
  NoAbsentElement
    => /\ ctx.current_index >= 0
       /\ ctx.current_index <= Len(ctx.input)
       /\ ctx.cut_point # NoCut => ctx.cut_point <= ctx.current_index
       /\ (log # <<>> /\ Last.ev = "return")
            => Last.pos >= Last.arg /\ ctx.current_index >= Last.arg
       /\ (log # <<>> /\ Last.ev = "reset" /\ Last.flag)
            => KindOf(Last.node) # "Caching"

\* After a cut, a memo hit has replayed the stored position and the parse
\* has ended at the end of the input.
PositionBoundsWitness ==
  /\ NoAbsentElement
  /\ status = "done"
  /\ ctx.cut_point >= 1
  /\ ctx.current_index = Len(ctx.input)
  /\ \E i \in Events("cut") : \E j \in Events("hit") :
       i < j /\ log[j].arg > log[j].pos

\* The graph holds a DelayedParser, the node the specification calls Lazy.
HasDelayed == \E n \in DOMAIN nodes : KindOf(n) = "Delayed"

\* The children a node's parse method calls, and the nodes reached from a
\* set of nodes in at most k calls.
KidsOf(n) ==
  IF KindOf(n) = "Delayed" THEN {}
  ELSE {nodes[n].kids[k] : k \in DOMAIN nodes[n].kids} \ {0}

RECURSIVE Below(_, _)
Below(S, k) ==
  IF k = 0 THEN S ELSE Below(S \cup UNION {KidsOf(n) : n \in S}, k - 1)

\* Some node is its own descendant: AlternationParser.or and
\* SequenceParser.then push their argument onto the receiver's own list,
\* so x.or(x) makes x one of its own alternatives.
Cyclic == \E n \in DOMAIN nodes : n \in Below(KidsOf(n), Len(nodes))

\* Every child of a ManyParser that has succeeded so far has consumed at
\* least one element.
Consuming ==
  \A j \in Events("return") :
    (log[j].by # 0 /\ KindOf(log[j].by) = "Many" /\ is_not_null(log[j].val))
      => log[j].pos > log[j].arg

\* The parse is still running when the trace is full.
Unfinished == status = "running" /\ Len(log) >= MaxLog

\* A node's parse method is active twice from the same position: the calls
\* in between have consumed nothing, and the inner call repeats the outer.
Reentered ==
  \E i, j \in DOMAIN stack :
    i < j /\ stack[i].node = stack[j].node /\ stack[i].start = stack[j].start

\* A ManyParser that started at position s in an input of length n has
\* called its child at most n - s + 1 times: results holds one entry for
\* each call before the one just made.
RepetitionBound ==
  (log # <<>> /\ Last.ev = "call" /\ Last.by # 0 /\ KindOf(Last.by) = "Many")
    => LET many == stack[Len(stack) - 1]
       IN  Len(many.acc) + 1 <= Len(ctx.input) - many.start + 1

\* C22: implicit termination.  On a finite input, a parse by a graph
\* without Lazy nodes in which every successful match of a repetition's
\* child consumes at least one element terminates (it does not fill the
\* trace while running, a node re-entered from the position it is active
\* at), and a repetition that started at position s in an input of length
\* n calls its child at most n - s + 1 times.
ImplicitTermination ==
  (~HasDelayed /\ Consuming)
    => /\ RepetitionBound
       /\ ~(Unfinished /\ Reentered)

\* The same of the graphs in which no node is its own descendant: the
\* parse ends before the trace is full.
TerminatesWhenAcyclic ==
  \/ HasDelayed
  \/ /\ RepetitionBound
     /\ ~Unfinished
  \/ ~Consuming
  \/ Cyclic

\* A repetition over a consuming child has ended after calling its child
\* n - s + 1 times, in a graph in which no node is its own descendant.
TerminatesWhenAcyclicWitness ==
  /\ ~HasDelayed
  /\ ~Cyclic
  /\ Consuming
  /\ status = "done"
  /\ \E j \in Events("return") :
       /\ KindOf(log[j].node) = "Many"
       /\ Len(Children(CallOf(j), j, "call"))
            = Len(ctx.input) - log[j].arg + 1

====
